---- MODULE Spec2Model ----
(***************************************************************************)
(* ObjectInOrbit (solar_system_cartography/api.py): one orbiting body,     *)
(* its constructor, its accessors, its public set_* computations and       *)
(* get_circumference_percentage.                                           *)
(*                                                                         *)
(* Python floats are modelled as binary floating-point numbers with the    *)
(* range of binary64 (least positive value 2^-1074, overflow at 2^1024)    *)
(* and a significand of P bits, rounded to nearest, ties to even.  A value *)
(* is a record [c, m, e, s]:                                               *)
(*   c = "fin": the number m * 2^e, in canonical form (m = 0 and e = EMin, *)
(*              or |m| has exactly P bits, or e = EMin and |m| has fewer); *)
(*   c = "inf": an infinity of sign m;  c = "nan": not a number;           *)
(*   c = "str": the string s.                                              *)
(* A raised exception is a record whose c is the exception's class name;   *)
(* an operation with a raised operand raises it (Python evaluates operands *)
(* left to right, before the operation).  The sign of a zero is dropped:   *)
(* no operation of the class tells -0.0 from 0.0.                          *)
(***************************************************************************)
EXTENDS Integers, Sequences, FiniteSets, TLC

\* Bits of significand kept by the model's floats (53 in binary64).
P == 8

\* Exponent of the least positive float, 2^-1074 in binary64.
EMin == 0 - 1074

\* Floats are below 2^EMax in magnitude.
EMax == 2 ^ 10

Exceptions ==
    {"ZeroDivisionError", "ValueError", "OverflowError", "AttributeError"}

\* The values: floats, strings, ints, None and raised exceptions.
Float == [c : STRING, m : Int, e : Int, s : STRING]

Val(c, m, e) == [c |-> c, m |-> m, e |-> e, s |-> ""]

Str(s) == [c |-> "str", m |-> 0, e |-> 0, s |-> s]

Raise(name) == Val(name, 0, 0)

Zero == Val("fin", 0, EMin)

NaN == Val("nan", 0, 0)

Inf(sign) == Val("inf", sign, 0)

IsExc(x) == x.c \in Exceptions

IsFin(x) == x.c = "fin"

IsNaN(x) == x.c = "nan"

IsInf(x) == x.c = "inf"

IsZero(x) == x.c = "fin" /\ x.m = 0

Abs(n) == IF n < 0 THEN 0 - n ELSE n

Sign(n) == IF n < 0 THEN 0 - 1 ELSE 1

Max(a, b) == IF a >= b THEN a ELSE b

RECURSIVE BitLen(_)
BitLen(n) == IF n = 0 THEN 0 ELSE 1 + BitLen(n \div 2)

RECURSIVE ISqrt(_)
ISqrt(n) ==
    IF n < 2 THEN n
    ELSE LET s == 2 * ISqrt(n \div 4)
         IN  IF (s + 1) * (s + 1) <= n THEN s + 1 ELSE s

\* The float sign * m * 2^e of a significand already rounded to at most
\* P + 1 bits; an infinity when its magnitude reaches 2^EMax.
Pack[sign \in Int, m \in Int, e \in Int] ==
    IF m = 0 THEN Zero
    ELSE IF m = 2 ^ P
         THEN IF P + e + 1 > EMax THEN Inf(sign)
              ELSE Val("fin", sign * 2 ^ (P - 1), e + 1)
    ELSE IF BitLen(m) + e > EMax THEN Inf(sign)
    ELSE Val("fin", sign * m, e)

\* Round to nearest, ties to even: q units of 2^e and a remainder of
\* r / (2 * half) units, plus something more when sticky.
RoundQ[sign \in Int, q \in Int, r \in Int, half \in Int, sticky \in BOOLEAN, e \in Int] ==
    IF r > half \/ (r = half /\ (sticky \/ q % 2 = 1))
    THEN Pack[sign, q + 1, e]
    ELSE Pack[sign, q, e]

\* M has bl bits and the result counts in units of 2^(E + sh).
RoundSh[sign \in Int, M \in Int, E \in Int, sticky \in BOOLEAN, bl \in Int, sh \in Int] ==
    IF M = 0 \/ sh > bl + 1 THEN Zero
    ELSE IF sh <= 0 THEN Pack[sign, M * 2 ^ (0 - sh), E + sh]
    ELSE RoundQ[sign, M \div 2 ^ sh, M % 2 ^ sh, 2 ^ (sh - 1), sticky, E + sh]

RoundBl[sign \in Int, M \in Int, E \in Int, sticky \in BOOLEAN, bl \in Int] ==
    RoundSh[sign, M, E, sticky, bl, Max(E + bl - P, EMin) - E]

\* The float nearest to sign * (M + t) * 2^E, where t = 0 when sticky is
\* FALSE and 0 < t < 1 otherwise (then M carries at least P + 1 bits);
\* an infinity when the rounded magnitude reaches 2^EMax.
Round(sign, M, E, sticky) == RoundBl[sign, M, E, sticky, BitLen(M)]

\* The float nearest to n * 2^e.
Flt(n, e) == Round(Sign(n), Abs(n), e, FALSE)

\* int -> float, as float(n) and the mixed int/float operators do it.
FromInt(n) == Flt(n, 0)

One == FromInt(1)

Two == FromInt(2)

Neg(x) ==
    IF x.c \in {"fin", "inf"} THEN Val(x.c, 0 - x.m, x.e) ELSE x

\* x < y on floats; FALSE when either is a NaN.
Lt(x, y) ==
    IF IsNaN(x) \/ IsNaN(y) THEN FALSE
    ELSE IF IsInf(x) THEN x.m < 0 /\ ~(IsInf(y) /\ y.m < 0)
    ELSE IF IsInf(y) THEN y.m > 0
    ELSE IF x.m <= 0 /\ y.m >= 0 THEN x.m < y.m
    ELSE IF x.m >= 0 /\ y.m <= 0 THEN FALSE
    ELSE IF x.m > 0
         THEN x.e < y.e \/ (x.e = y.e /\ x.m < y.m)
         ELSE x.e > y.e \/ (x.e = y.e /\ x.m < y.m)

\* x == y on floats; FALSE when either is a NaN.
Eq(x, y) == ~IsNaN(x) /\ ~IsNaN(y) /\ x = y

Le(x, y) == Lt(x, y) \/ Eq(x, y)

Ge(x, y) == Le(y, x)

\* x * y
MulF[x \in Float, y \in Float] ==
    IF IsExc(x) THEN x
    ELSE IF IsExc(y) THEN y
    ELSE IF IsNaN(x) \/ IsNaN(y) THEN NaN
    ELSE IF IsInf(x) \/ IsInf(y)
         THEN IF IsZero(x) \/ IsZero(y) THEN NaN
              ELSE Inf(Sign(x.m) * Sign(y.m))
    ELSE Round(Sign(x.m) * Sign(y.m), Abs(x.m) * Abs(y.m), x.e + y.e, FALSE)

Mul(x, y) == MulF[x, y]

\* x / y: float division raises on a zero divisor, whatever the dividend.
DivF[x \in Float, y \in Float] ==
    IF IsExc(x) THEN x
    ELSE IF IsExc(y) THEN y
    ELSE IF IsZero(y) THEN Raise("ZeroDivisionError")
    ELSE IF IsNaN(x) \/ IsNaN(y) THEN NaN
    ELSE IF IsInf(x)
         THEN IF IsInf(y) THEN NaN ELSE Inf(Sign(x.m) * Sign(y.m))
    ELSE IF IsInf(y) THEN Zero
    ELSE IF IsZero(x) THEN Zero
    ELSE LET k   == P + 2 + Max(0, BitLen(Abs(y.m)) - BitLen(Abs(x.m)))
             num == Abs(x.m) * 2 ^ k
         IN  Round(Sign(x.m) * Sign(y.m), num \div Abs(y.m), x.e - y.e - k,
                   num % Abs(y.m) # 0)

Div(x, y) == DivF[x, y]

\* x + y
AddF[x \in Float, y \in Float] ==
    IF IsExc(x) THEN x
    ELSE IF IsExc(y) THEN y
    ELSE IF IsNaN(x) \/ IsNaN(y) THEN NaN
    ELSE IF IsInf(x)
         THEN IF IsInf(y) /\ x.m # y.m THEN NaN ELSE x
    ELSE IF IsInf(y) THEN y
    ELSE IF IsZero(x) THEN y
    ELSE IF IsZero(y) THEN x
    ELSE LET hi == IF x.e >= y.e THEN x ELSE y
             lo == IF x.e >= y.e THEN y ELSE x
             d  == hi.e - lo.e
         IN  IF d > P + 2
             THEN Round(Sign(hi.m),
                        IF Sign(hi.m) = Sign(lo.m)
                        THEN Abs(hi.m) * 4 ELSE Abs(hi.m) * 4 - 1,
                        hi.e - 2, TRUE)
             ELSE LET sum == hi.m * 2 ^ d + lo.m
                  IN  Round(Sign(sum), Abs(sum), lo.e, FALSE)

Add(x, y) == AddF[x, y]

\* x - y
Sub(x, y) == Add(x, Neg(y))

\* math.sqrt(x): a domain error below zero.
SqrtF[x \in Float] ==
    IF IsExc(x) THEN x
    ELSE IF IsNaN(x) THEN NaN
    ELSE IF x.m < 0 THEN Raise("ValueError")
    ELSE IF IsInf(x) THEN x
    ELSE IF IsZero(x) THEN Zero
    ELSE LET k0 == Max(0, 2 * P + 2 - BitLen(x.m))
             k  == k0 + ((x.e - k0) % 2)
             n  == x.m * 2 ^ k
             s  == ISqrt(n)
         IN  Round(1, s, (x.e - k) \div 2, s * s # n)

Sqrt(x) == SqrtF[x]

\* x ** k for k in {2, 3}: float_pow raises OverflowError when a finite x
\* gives an infinite result, and returns 0.0 on underflow.
PowF[x \in Float, k \in Int] ==
    IF IsExc(x) THEN x
    ELSE IF IsNaN(x) THEN NaN
    ELSE IF IsInf(x) THEN Inf(IF k % 2 = 1 THEN x.m ELSE 1)
    ELSE LET r == Round(IF k % 2 = 1 THEN Sign(x.m) ELSE 1,
                        Abs(x.m) ^ k, k * x.e, FALSE)
         IN  IF IsInf(r) THEN Raise("OverflowError") ELSE r

Pow(x, k) == PowF[x, k]

\* An int too large for a float raises when an operator converts it.
ToFloat(x) ==
    IF x.c = "int"
    THEN LET r == Flt(x.m, x.e)
         IN  IF IsInf(r) THEN Raise("OverflowError") ELSE r
    ELSE x

\* A Python int n * 2^e, kept exact until an operator converts it.
PyInt(n, e) == Val("int", n, e)

\* math.pi
Pi == Round(1, 843314856, 0 - 28, TRUE)

\* envs.G, the gravitational constant, 6.6743e-11 m^3 kg^-1 s^-2
G == Round(1, 615595519, 0 - 63, TRUE)

\* envs.SOLAR_MASS, 1.989e30 kg
SOLAR_MASS == Round(1, 842374266, 71, TRUE)

\* envs.AU, 1.495978707e11 m
AU == Round(1, 584366682, 8, TRUE)

\* utils.convert_au_to_meters
convert_au_to_meters(x) == Mul(x, AU)

\* self.<name>: AttributeError while __init__ has not assigned it yet.
Attr(self, name) ==
    IF name \in DOMAIN self THEN self[name] ELSE Raise("AttributeError")

\* Mutant: the sign under the root slipped.
set_semi_minor_axis_Plus(self) ==
    Mul(Attr(self, "_semi_major_axis"),
        Sqrt(Add(One, Pow(Attr(self, "_eccentricity"), 2))))

set_semi_minor_axis(self) ==
    Mul(Attr(self, "_semi_major_axis"),
        Sqrt(Sub(One, Pow(Attr(self, "_eccentricity"), 2))))

\* Mutant: the body's own mass added to the central mass (the reduced-mass
\* refinement of Kepler's third law).
set_orbital_period_Reduced(self) ==
    Div(Mul(Mul(Two, Pi),
            Sqrt(Div(Pow(convert_au_to_meters(
                             Attr(self, "_semi_major_axis")), 3),
                     Mul(G, Add(Attr(self, "_attraction_mass"),
                                Attr(self, "_mass")))))),
        FromInt(60 * 60 * 24))

set_orbital_period(self) ==
    LET orbital_period ==
            Mul(Mul(Two, Pi),
                Sqrt(Div(Pow(convert_au_to_meters(
                                 Attr(self, "_semi_major_axis")), 3),
                         Mul(G, Attr(self, "_attraction_mass")))))
    IN  Div(orbital_period, FromInt(60 * 60 * 24))

set_orbital_circumference(self) ==
    Mul(Mul(Two, Pi), Mul(Attr(self, "_semi_major_axis"), AU))

\* Mutant: the aphelion's sign at the perihelion.
set_perihelion_distance_Plus(self) ==
    Mul(Attr(self, "_semi_major_axis"),
        Add(One, Attr(self, "_eccentricity")))

set_perihelion_distance(self) ==
    Mul(Attr(self, "_semi_major_axis"),
        Sub(One, Attr(self, "_eccentricity")))

set_perihelion_velocity(self) ==
    Sqrt(Mul(Mul(G, Add(Attr(self, "_attraction_mass"), Attr(self, "_mass"))),
             Sub(Div(Two, convert_au_to_meters(
                              Attr(self, "_perihelion_distance"))),
                 Div(One, convert_au_to_meters(
                              Attr(self, "_semi_major_axis"))))))

set_aphelion_distance(self) ==
    Mul(Attr(self, "_semi_major_axis"),
        Add(One, Attr(self, "_eccentricity")))

\* Mutant: the aphelion distance left in AU.
set_aphelion_velocity_NoConvert(self) ==
    Sqrt(Mul(Mul(G, Add(Attr(self, "_attraction_mass"), Attr(self, "_mass"))),
             Sub(Div(Two, Attr(self, "_aphelion_distance")),
                 Div(One, convert_au_to_meters(
                              Attr(self, "_semi_major_axis"))))))

set_aphelion_velocity(self) ==
    Sqrt(Mul(Mul(G, Add(Attr(self, "_attraction_mass"), Attr(self, "_mass"))),
             Sub(Div(Two, convert_au_to_meters(
                              Attr(self, "_aphelion_distance"))),
                 Div(One, convert_au_to_meters(
                              Attr(self, "_semi_major_axis"))))))

\* Mutant: IEEE division, an infinity or a NaN instead of an exception.
orbital_speed_IEEE(self, radius) ==
    IF IsZero(Attr(self, "_orbital_period"))
    THEN IF IsZero(radius) THEN NaN ELSE Inf(Sign(radius.m))
    ELSE Div(Mul(Mul(Two, Pi), radius), Attr(self, "_orbital_period"))

\* orbital_speed of get_circumference_percentage
orbital_speed(self, radius) ==
    Div(Mul(Mul(Two, Pi), radius), Attr(self, "_orbital_period"))

get_circumference_percentage(self, radius, time) ==
    LET speed == orbital_speed(self, radius)
    IN  IF IsExc(speed) THEN speed
        ELSE Mul(Div(Attr(self, "_orbital_circumference"), FromInt(100)),
                 Mul(speed, ToFloat(time)))

\* The get_* accessors: the attribute each one returns.
Getters ==
    {"get_name", "get_semi_major_axis", "get_inclination",
     "get_eccentricity", "get_orbital_period", "get_semi_minor_axis",
     "get_perihelion_distance", "get_perihelion_velocity",
     "get_aphelion_distance", "get_aphelion_velocity",
     "get_orbital_circumference"}

\* Mutant: get_perihelion_distance returns the aphelion's.
get_Swapped(self, g) ==
    CASE g = "get_name" -> Attr(self, "_name")
      [] g = "get_semi_major_axis" -> Attr(self, "_semi_major_axis")
      [] g = "get_inclination" -> Attr(self, "_inclination")
      [] g = "get_eccentricity" -> Attr(self, "_eccentricity")
      [] g = "get_orbital_period" -> Attr(self, "_orbital_period")
      [] g = "get_semi_minor_axis" -> Attr(self, "_semi_minor_axis")
      [] g = "get_perihelion_distance" -> Attr(self, "_aphelion_distance")
      [] g = "get_perihelion_velocity" -> Attr(self, "_perihelion_velocity")
      [] g = "get_aphelion_distance" -> Attr(self, "_aphelion_distance")
      [] g = "get_aphelion_velocity" -> Attr(self, "_aphelion_velocity")
      [] g = "get_orbital_circumference" ->
             Attr(self, "_orbital_circumference")

get(self, g) ==
    CASE g = "get_name" -> Attr(self, "_name")
      [] g = "get_semi_major_axis" -> Attr(self, "_semi_major_axis")
      [] g = "get_inclination" -> Attr(self, "_inclination")
      [] g = "get_eccentricity" -> Attr(self, "_eccentricity")
      [] g = "get_orbital_period" -> Attr(self, "_orbital_period")
      [] g = "get_semi_minor_axis" -> Attr(self, "_semi_minor_axis")
      [] g = "get_perihelion_distance" -> Attr(self, "_perihelion_distance")
      [] g = "get_perihelion_velocity" -> Attr(self, "_perihelion_velocity")
      [] g = "get_aphelion_distance" -> Attr(self, "_aphelion_distance")
      [] g = "get_aphelion_velocity" -> Attr(self, "_aphelion_velocity")
      [] g = "get_orbital_circumference" ->
             Attr(self, "_orbital_circumference")

\* The public set_* methods: each computes and returns, and assigns nothing.
Setters ==
    {"set_semi_minor_axis", "set_orbital_period", "set_orbital_circumference",
     "set_perihelion_distance", "set_perihelion_velocity",
     "set_aphelion_distance", "set_aphelion_velocity"}

set(self, f) ==
    CASE f = "set_semi_minor_axis" -> set_semi_minor_axis(self)
      [] f = "set_orbital_period" -> set_orbital_period(self)
      [] f = "set_orbital_circumference" -> set_orbital_circumference(self)
      [] f = "set_perihelion_distance" -> set_perihelion_distance(self)
      [] f = "set_perihelion_velocity" -> set_perihelion_velocity(self)
      [] f = "set_aphelion_distance" -> set_aphelion_distance(self)
      [] f = "set_aphelion_velocity" -> set_aphelion_velocity(self)

\* __repr__: the lines of the summary, as <<label, value, unit>>.
repr(self) ==
    << <<"ObjectInOrbit", Attr(self, "_name"), "">>,
       <<"semi major axis", Attr(self, "_semi_major_axis"), "AU">>,
       <<"semi minor axis", Attr(self, "_semi_minor_axis"), "AU">>,
       <<"inclination", Attr(self, "_inclination"), "deg">>,
       <<"eccentricity", Attr(self, "_eccentricity"), "">>,
       <<"period", Attr(self, "_orbital_period"), "days">>,
       <<"circumference", Attr(self, "_orbital_circumference"), "m">>,
       <<"distance at perihelion", Attr(self, "_perihelion_distance"), "AU">>,
       <<"velocity at perihelion", Attr(self, "_perihelion_velocity"), "m/s">>,
       <<"distance at aphelion", Attr(self, "_aphelion_distance"), "AU">>,
       <<"velocity at aphelion", Attr(self, "_aphelion_velocity"), "m/s">>,
       <<"mass", Attr(self, "_mass"), "kg">> >>

\* Mutant: get_circumference_percentage keeps its orbital_speed in the
\* attribute it divided by.
self_after_Caching(self, method, radius) ==
    IF method = "get_circumference_percentage"
       /\ ~IsExc(orbital_speed(self, radius))
    THEN [self EXCEPT !["_orbital_period"] = orbital_speed(self, radius)]
    ELSE self

\* The object a method call leaves behind: no method but __init__ assigns
\* to self.
self_after(self, method, radius) == self

\* Mutant: the perihelion velocity derived before the perihelion distance.
InitOrder_VelocityFirst ==
    << "_name", "_semi_major_axis", "_inclination", "_eccentricity",
       "_attraction_mass", "_mass", "_semi_minor_axis", "_orbital_period",
       "_orbital_circumference", "_perihelion_velocity",
       "_perihelion_distance", "_aphelion_distance", "_aphelion_velocity" >>

\* The attributes in the order __init__ assigns them.
InitOrder ==
    << "_name", "_semi_major_axis", "_inclination", "_eccentricity",
       "_attraction_mass", "_mass", "_semi_minor_axis", "_orbital_period",
       "_orbital_circumference", "_perihelion_distance",
       "_perihelion_velocity", "_aphelion_distance", "_aphelion_velocity" >>

\* The right-hand side of __init__'s assignment to attribute name.
InitValue(self, a, name) ==
    CASE name = "_name" -> a.object_name
      [] name = "_semi_major_axis" -> a.semi_major_axis
      [] name = "_inclination" -> a.inclination
      [] name = "_eccentricity" -> a.eccentricity
      [] name = "_attraction_mass" -> SOLAR_MASS
      [] name = "_mass" -> a.object_mass
      [] name = "_semi_minor_axis" -> set_semi_minor_axis(self)
      [] name = "_orbital_period" -> set_orbital_period(self)
      [] name = "_orbital_circumference" -> set_orbital_circumference(self)
      [] name = "_perihelion_distance" -> set_perihelion_distance(self)
      [] name = "_perihelion_velocity" -> set_perihelion_velocity(self)
      [] name = "_aphelion_distance" -> set_aphelion_distance(self)
      [] name = "_aphelion_velocity" -> set_aphelion_velocity(self)

NoAttrs == [name \in {} |-> Zero]

None == Val("None", 0, 0)

\* __init__ run from its k-th assignment to its end: the object and the
\* exception raised out of it ("" when it returned).
RECURSIVE RunInit(_, _, _)
RunInit(self, a, k) ==
    IF k > Len(InitOrder) THEN [obj |-> self, err |-> ""]
    ELSE CHOOSE r \in
             { IF IsExc(v) THEN [obj |-> self, err |-> v.c]
               ELSE RunInit(self @@ (InitOrder[k] :> v), a, k + 1) :
               v \in {InitValue(self, a, InitOrder[k])} } : TRUE

\* ---------------------------------------------------------------- inputs

Names == {"Mercury"}

Masses == {Flt(1, 0), Flt(1, 100), Flt(0 - 1, 0), Flt(0 - 1, 102)}

SemiMajorAxes ==
    {Zero, Flt(1, 0), Flt(3, 0 - 1), Flt(5, 0), Flt(1, 0 - 1062),
     Flt(1, 0 - 400), Flt(1, 320), Flt(0 - 1, 0), Flt(1, EMin)}

Inclinations == {Zero, Flt(7, 0)}

Eccentricities ==
    {Zero, Flt(1, 0 - 30), Flt(1, 0 - 1), Flt(255, 0 - 8), One, Flt(3, 0 - 1),
     Flt(1, 600)}

Args ==
    [object_name : {Str(n) : n \in Names}, object_mass : Masses,
     semi_major_axis : SemiMajorAxes, inclination : Inclinations,
     eccentricity : Eccentricities]

\* The arguments of the two bodies of SpecPair.
PairArgs ==
    [object_name : {Str(n) : n \in Names},
     object_mass : {Flt(1, 0), Flt(1, 100)},
     semi_major_axis : {Flt(1, 0), Flt(3, 0 - 1), Flt(5, 0), Flt(1, 0 - 400)},
     inclination : Inclinations,
     eccentricity : {Zero, Flt(1, 0 - 1)}]

\* The radius and time arguments tried on get_circumference_percentage.
RadiusArgs(self) ==
    {Attr(self, "_semi_major_axis"), Zero, Flt(0 - 1, 0)}

TimeArgs(self) ==
    {Attr(self, "_orbital_period"), PyInt(0, 0), PyInt(1, 0),
     PyInt(1, 1030)}

\* ----------------------------------------------------------------- state

VARIABLES
    args,       \* the arguments __init__ was called with
    pc,         \* the number of assignments __init__ has made
    status,     \* "constructing", "constructed" or "raised"
    obj,        \* self: attribute name -> value, for the attributes assigned
    err,        \* the exception raised out of __init__, "" if none
    last,       \* the method last called on the constructed object
    callArgs,   \* the arguments of that call
    ret,        \* what that call returned or raised
    text,       \* what __repr__ returned
    other       \* a second body and its arguments (SpecPair)

vars == <<args, pc, status, obj, err, last, callArgs, ret, text, other>>

Init ==
    /\ args \in Args
    /\ pc = 0
    /\ status = "constructing"
    /\ obj = NoAttrs
    /\ err = ""
    /\ last = ""
    /\ callArgs = <<>>
    /\ ret = None
    /\ text = <<>>
    /\ other = NoAttrs

\* One assignment of __init__ (lines 7-19); after the last, __init__ returns.
InitAssign ==
    /\ status = "constructing"
    /\ pc < Len(InitOrder)
    /\ \E v \in {InitValue(obj, args, InitOrder[pc + 1])} :
           /\ ~IsExc(v)
           /\ obj' = obj @@ (InitOrder[pc + 1] :> v)
    /\ pc' = pc + 1
    /\ status' = IF pc + 1 = Len(InitOrder) THEN "constructed" ELSE status
    /\ UNCHANGED <<args, err, last, callArgs, ret, text, other>>

\* The right-hand side of the next assignment raises: the exception leaves
\* __init__ and no object is returned.
InitRaise ==
    /\ status = "constructing"
    /\ pc < Len(InitOrder)
    /\ \E v \in {InitValue(obj, args, InitOrder[pc + 1])} :
           /\ IsExc(v)
           /\ err' = v.c
    /\ status' = "raised"
    /\ UNCHANGED <<args, pc, obj, last, callArgs, ret, text, other>>

Get(g) ==
    /\ status = "constructed"
    /\ last = ""
    /\ ret' = get(obj, g)
    /\ last' = g
    /\ callArgs' = <<>>
    /\ text' = <<>>
    /\ obj' = self_after(obj, g, Zero)
    /\ UNCHANGED <<args, pc, status, err, other>>

CallSet(f) ==
    /\ status = "constructed"
    /\ last = ""
    /\ ret' = set(obj, f)
    /\ last' = f
    /\ callArgs' = <<>>
    /\ text' = <<>>
    /\ obj' = self_after(obj, f, Zero)
    /\ UNCHANGED <<args, pc, status, err, other>>

Repr ==
    /\ status = "constructed"
    /\ last = ""
    /\ text' = repr(obj)
    /\ ret' = None
    /\ last' = "__repr__"
    /\ callArgs' = <<>>
    /\ obj' = self_after(obj, "__repr__", Zero)
    /\ UNCHANGED <<args, pc, status, err, other>>

Percentage(radius, time) ==
    /\ status = "constructed"
    /\ last = ""
    /\ ret' = get_circumference_percentage(obj, radius, time)
    /\ last' = "get_circumference_percentage"
    /\ callArgs' = <<radius, time>>
    /\ text' = <<>>
    /\ obj' = self_after(obj, "get_circumference_percentage", radius)
    /\ UNCHANGED <<args, pc, status, err, other>>

\* The call returns to its caller, which drops the value: the object is
\* ready for the next call.
Return ==
    /\ status = "constructed"
    /\ last # ""
    /\ last' = ""
    /\ callArgs' = <<>>
    /\ ret' = None
    /\ text' = <<>>
    /\ UNCHANGED <<args, pc, status, obj, err, other>>

Next ==
    \/ InitAssign
    \/ InitRaise
    \/ \E g \in Getters : Get(g)
    \/ \E f \in Setters : CallSet(f)
    \/ Repr
    \/ \E radius \in RadiusArgs(obj) : \E time \in TimeArgs(obj) :
           Percentage(radius, time)
    \/ Return

Spec == Init /\ [][Next]_vars

\* ------------------------------------------------------------ two bodies

InitPair ==
    /\ args \in PairArgs
    /\ pc = 0
    /\ status = "constructing"
    /\ obj = NoAttrs
    /\ err = ""
    /\ last = ""
    /\ callArgs = <<>>
    /\ ret = None
    /\ text = <<>>
    /\ other = NoAttrs

\* ObjectInOrbit(...): the whole of __init__.
Construct ==
    /\ status = "constructing"
    /\ \E r \in {RunInit(NoAttrs, args, 1)} :
           /\ obj' = r.obj
           /\ err' = r.err
           /\ pc' = Cardinality(DOMAIN r.obj)
           /\ status' = IF r.err = "" THEN "constructed" ELSE "raised"
    /\ UNCHANGED <<args, last, callArgs, ret, text, other>>

\* A second ObjectInOrbit(...), around the same central mass; nothing is
\* bound when its __init__ raises.
ConstructOther(a) ==
    /\ status = "constructed"
    /\ other = NoAttrs
    /\ \E r \in {RunInit(NoAttrs, a, 1)} :
           /\ r.err = ""
           /\ other' = r.obj
    /\ UNCHANGED <<args, pc, status, obj, err, last, callArgs, ret, text>>

NextPair ==
    \/ Construct
    \/ \E a \in PairArgs : ConstructOther(a)

SpecPair == InitPair /\ [][NextPair]_vars

\* ---------------------------------------------------------------- claims

Constructed == status = "constructed"

a_arg == args.semi_major_axis

e_arg == args.eccentricity

m_arg == args.object_mass

\* mass > 0, semi-major axis > 0, 0 <= eccentricity < 1
ValidInputs ==
    /\ Lt(Zero, m_arg)
    /\ Lt(Zero, a_arg)
    /\ Le(Zero, e_arg)
    /\ Lt(e_arg, One)

\* semi-major axis > 0, 0 <= eccentricity < 1
ValidOrbit == Lt(Zero, a_arg) /\ Le(Zero, e_arg) /\ Lt(e_arg, One)

\* C1: an object constructed from valid inputs has
\* get_perihelion_distance() <= get_semi_major_axis() <=
\* get_aphelion_distance().
C1_DistancesOrdered ==
    (Constructed /\ ValidInputs) =>
        /\ Le(get(obj, "get_perihelion_distance"),
              get(obj, "get_semi_major_axis"))
        /\ Le(get(obj, "get_semi_major_axis"),
              get(obj, "get_aphelion_distance"))

\* An eccentric valid orbit, both inequalities strict.
C1_Witness ==
    /\ Constructed
    /\ ValidInputs
    /\ Lt(get(obj, "get_perihelion_distance"), get(obj, "get_semi_major_axis"))
    /\ Lt(get(obj, "get_semi_major_axis"), get(obj, "get_aphelion_distance"))

\* The vis-viva speed sqrt(G * (central_mass + body_mass) * (2/r - 1/a)),
\* r and a converted from AU to meters.
VisViva(self, r) ==
    Sqrt(Mul(Mul(G, Add(self["_attraction_mass"], self["_mass"])),
             Sub(Div(Two, convert_au_to_meters(r)),
                 Div(One, convert_au_to_meters(self["_semi_major_axis"])))))

BothVisViva ==
    /\ get(obj, "get_perihelion_velocity")
           = VisViva(obj, obj["_perihelion_distance"])
    /\ get(obj, "get_aphelion_velocity")
           = VisViva(obj, obj["_aphelion_distance"])

\* C2 as stated: an object constructed from valid inputs has
\* get_perihelion_velocity() >= get_aphelion_velocity(), both the vis-viva
\* value at their distance.
C2_PerihelionFaster ==
    (Constructed /\ ValidInputs) =>
        /\ BothVisViva
        /\ Ge(get(obj, "get_perihelion_velocity"),
              get(obj, "get_aphelion_velocity"))

\* C2 as amended: both velocities are the vis-viva value at their distance,
\* and the perihelion velocity is >= the aphelion velocity unless one of
\* them is a NaN (which no comparison orders).
C2_PerihelionFasterUnlessNaN ==
    (Constructed /\ ValidInputs) =>
        /\ BothVisViva
        /\ \/ IsNaN(get(obj, "get_perihelion_velocity"))
           \/ IsNaN(get(obj, "get_aphelion_velocity"))
           \/ Ge(get(obj, "get_perihelion_velocity"),
                 get(obj, "get_aphelion_velocity"))

\* An eccentric valid orbit, strictly faster at the perihelion.
C2_Witness ==
    /\ Constructed
    /\ ValidInputs
    /\ Lt(get(obj, "get_aphelion_velocity"),
          get(obj, "get_perihelion_velocity"))

\* C3 as stated: with a > 0 and 0 <= e < 1, get_semi_minor_axis() <=
\* get_semi_major_axis(), equal if and only if the eccentricity is 0.
C3_MinorEqualIffCircular ==
    (Constructed /\ ValidOrbit) =>
        /\ Le(get(obj, "get_semi_minor_axis"), get(obj, "get_semi_major_axis"))
        /\ Eq(get(obj, "get_semi_minor_axis"), get(obj, "get_semi_major_axis"))
               <=> IsZero(e_arg)

\* C3 as amended: with a > 0 and 0 <= e < 1, get_semi_minor_axis() <=
\* get_semi_major_axis(), and they are equal when the eccentricity is 0
\* (and also for an eccentricity too small to survive 1 - e**2).
C3_MinorAtMostMajor ==
    (Constructed /\ ValidOrbit) =>
        /\ Le(get(obj, "get_semi_minor_axis"), get(obj, "get_semi_major_axis"))
        /\ IsZero(e_arg) =>
               Eq(get(obj, "get_semi_minor_axis"),
                  get(obj, "get_semi_major_axis"))

\* An eccentric orbit with a strictly shorter semi-minor axis.
C3_Witness ==
    /\ Constructed
    /\ ValidOrbit
    /\ ~IsZero(e_arg)
    /\ Lt(get(obj, "get_semi_minor_axis"), get(obj, "get_semi_major_axis"))

PercentageCalled == last = "get_circumference_percentage"

\* C4: get_circumference_percentage(semi-major axis, get_orbital_period())
\* returns approximately 100 (here: between 90 and 110).
C4_FullPeriodIsHundred ==
    (/\ PercentageCalled
     /\ callArgs = <<obj["_semi_major_axis"], obj["_orbital_period"]>>
     /\ ~IsZero(obj["_orbital_period"])) =>
        /\ Le(FromInt(90), ret)
        /\ Le(ret, FromInt(110))

NegativeMass == Lt(m_arg, Zero)

BadEccentricity == Ge(e_arg, One)

ZeroAxis == IsZero(a_arg)

InputFields ==
    {"_name", "_mass", "_semi_major_axis", "_inclination", "_eccentricity"}

DerivedFields ==
    {"_semi_minor_axis", "_orbital_period", "_orbital_circumference",
     "_perihelion_distance", "_perihelion_velocity", "_aphelion_distance",
     "_aphelion_velocity"}

\* The accessor a field would have: get_<field>.
AccessorOf(field) == "get" \o field

\* C6 as stated: every input field and every derived field has an accessor
\* that returns the stored value.
C6_EveryFieldHasAccessor ==
    Constructed =>
        \A field \in InputFields \cup DerivedFields :
            /\ AccessorOf(field) \in Getters
            /\ get(obj, AccessorOf(field)) = obj[field]

\* C6 as amended: every input and derived field except the mass (which has
\* no accessor) has one, get_<field>, and a call of it returns exactly the
\* stored value and raises nothing.
C6_AccessorsReturnStored ==
    /\ Getters = {AccessorOf(field) :
                     field \in (InputFields \cup DerivedFields) \ {"_mass"}}
    /\ \A field \in (InputFields \cup DerivedFields) \ {"_mass"} :
           last = AccessorOf(field) => (ret = obj[field] /\ ~IsExc(ret))

\* get_perihelion_distance() was called on an eccentric orbit.
C6_Witness ==
    /\ last = "get_perihelion_distance"
    /\ ret = obj["_perihelion_distance"]
    /\ ret # obj["_aphelion_distance"]

NonFinite(x) == IsNaN(x) \/ IsInf(x)

\* C8 as stated: get_circumference_percentage never raises, and for a
\* radius <= 0 or a stored period <= 0 it returns a non-finite or negative
\* result.
C8_PercentageNeverRaises ==
    PercentageCalled =>
        /\ ~IsExc(ret)
        /\ (Le(callArgs[1], Zero) \/ Le(obj["_orbital_period"], Zero)) =>
               (NonFinite(ret) \/ Lt(ret, Zero))

\* C8 as amended: get_circumference_percentage raises ZeroDivisionError
\* exactly when the stored period is zero, OverflowError exactly when the
\* period is not zero and the time is an int too large for a float, and
\* nothing else; when it returns, a negative radius with a positive time
\* gives a negative, zero or non-finite result and a zero radius gives zero
\* or a NaN.
C8_PercentageRaisesOnZeroPeriod ==
    PercentageCalled =>
        /\ IsExc(ret) => ret.c \in {"ZeroDivisionError", "OverflowError"}
        /\ ret.c = "ZeroDivisionError" <=> IsZero(obj["_orbital_period"])
        /\ ret.c = "OverflowError" <=>
               (~IsZero(obj["_orbital_period"]) /\ IsExc(ToFloat(callArgs[2])))
        /\ (~IsExc(ret) /\ Lt(callArgs[1], Zero)
                /\ Lt(Zero, ToFloat(callArgs[2]))) =>
               (NonFinite(ret) \/ Le(ret, Zero))
        /\ (~IsExc(ret) /\ IsZero(callArgs[1])) => (IsZero(ret) \/ IsNaN(ret))

\* The call raised ZeroDivisionError on an object whose period underflowed.
C8_Witness ==
    /\ PercentageCalled
    /\ ret.c = "ZeroDivisionError"
    /\ Lt(callArgs[1], Zero)

\* C9: __init__ derives in dependency order: no right-hand side reads an
\* attribute not yet assigned (it would raise AttributeError), the
\* attributes assigned so far are the first pc of the order, and when
\* __init__ has returned all seven derived fields are assigned.
C9_DependencyOrder ==
    /\ err # "AttributeError"
    /\ DOMAIN obj = {InitOrder[i] : i \in 1..pc}
    /\ Constructed => DerivedFields \subseteq DOMAIN obj

\* __init__ returned with all thirteen attributes assigned.
C9_Witness == Constructed /\ pc = Len(InitOrder) /\ err = ""

\* C10: once __init__ has returned, no call (get_*, set_*, __repr__,
\* get_circumference_percentage) changes any attribute of the object.
C10_NoMutation == [][Constructed => obj' = obj]_vars

\* A public set_* method was called and returned the stored value again.
C10_Witness ==
    /\ Constructed
    /\ last = "set_orbital_period"
    /\ ret = obj["_orbital_period"]

\* ------------------------------------------------------- claims, two bodies

BothConstructed == Constructed /\ other # NoAttrs

RECURSIVE OddPart(_)
\* n without its factors of two (n > 0).
OddPart(n) == IF n % 2 = 1 THEN n ELSE OddPart(n \div 2)

RECURSIVE TwoPart(_)
\* The number of factors of two of n (n > 0).
TwoPart(n) == IF n % 2 = 1 THEN 0 ELSE 1 + TwoPart(n \div 2)

\* T1^2 * a2^3 = T2^2 * a1^3, exactly, for finite floats with a1, a2 > 0.
KeplerExact(T1, a1, T2, a2) ==
    IF IsZero(T1) \/ IsZero(T2) THEN IsZero(T1) /\ IsZero(T2)
    ELSE /\ OddPart(T1.m) ^ 2 * OddPart(a2.m) ^ 3
                = OddPart(T2.m) ^ 2 * OddPart(a1.m) ^ 3
         /\ 2 * (T1.e + TwoPart(T1.m)) + 3 * (a2.e + TwoPart(a2.m))
                = 2 * (T2.e + TwoPart(T2.m)) + 3 * (a1.e + TwoPart(a1.m))

\* |x - y| <= 2^(6 - P) * y: equal up to 64 roundings' worth.
Close(x, y) ==
    /\ IsFin(x)
    /\ IsFin(y)
    /\ Le(Sub(x, y), Mul(Flt(1, 6 - P), y))
    /\ Le(Sub(y, x), Mul(Flt(1, 6 - P), y))

\* (T1/T2)^2 and (a1/a2)^3 computed in floats are close.
KeplerClose(T1, a1, T2, a2) ==
    Close(Pow(Div(T1, T2), 2), Pow(Div(a1, a2), 3))

\* A semi-major axis between 2^-100 and 2^100 AU: no intermediate of the
\* period or of the two ratios underflows or overflows.
InRange(a) == Le(Flt(1, 0 - 100), a) /\ Le(a, Flt(1, 100))

\* The period is the same for the same semi-major axis, whatever the mass,
\* the eccentricity and the inclination.
PeriodFromAxisOnly ==
    Eq(obj["_semi_major_axis"], other["_semi_major_axis"]) =>
        Eq(obj["_orbital_period"], other["_orbital_period"])

\* C7 as stated: two constructed bodies have T1^2 * a2^3 = T2^2 * a1^3, and
\* the period depends on the semi-major axis alone.
C7_KeplerExact ==
    BothConstructed =>
        /\ KeplerExact(obj["_orbital_period"], obj["_semi_major_axis"],
                       other["_orbital_period"], other["_semi_major_axis"])
        /\ PeriodFromAxisOnly

\* C7 as amended: the period depends on the semi-major axis alone (equal
\* axes give equal periods whatever the masses, eccentricities and
\* inclinations), and for two bodies with semi-major axes between 2^-100
\* and 2^100 AU (T1/T2)^2 and (a1/a2)^3 agree to within a relative error
\* of 2^(6 - P), the rounding of the computation, rather than exactly.
C7_KeplerClose ==
    BothConstructed =>
        /\ PeriodFromAxisOnly
        /\ (InRange(obj["_semi_major_axis"])
                /\ InRange(other["_semi_major_axis"])) =>
               KeplerClose(obj["_orbital_period"], obj["_semi_major_axis"],
                           other["_orbital_period"], other["_semi_major_axis"])

\* Two bodies of different semi-major axes, masses and eccentricities.
C7_Witness ==
    /\ BothConstructed
    /\ InRange(obj["_semi_major_axis"])
    /\ Lt(obj["_semi_major_axis"], other["_semi_major_axis"])
    /\ Lt(obj["_orbital_period"], other["_orbital_period"])
    /\ obj["_mass"] # other["_mass"]
    /\ obj["_eccentricity"] # other["_eccentricity"]
====
